---- MODULE Spec2Model ----
(***************************************************************************)
(* SunSeat back end: the sun-exposure scorer (src/src/services/meteo.js),  *)
(* the shadow evaluator and the /api/terraces/nearby route (src/index.js). *)
(*                                                                         *)
(* Numbers.  The program computes in IEEE doubles; the model computes in   *)
(* exact integers and fractions:                                           *)
(*   - angles are whole degrees;                                           *)
(*   - a cloud fraction f is carried as the whole percentage 100*f;        *)
(*   - a shadow confidence c is carried as the numerator c*ConfDen(opts)   *)
(*     over the denominator ConfDen(opts) = 10*azTolerance;                *)
(*   - coordinates are metres along one meridian (lon fixed), where the    *)
(*     planar distance and the bearing of the program are exact;           *)
(*   - an optional value is <<>> (undefined) or <<v>>.                     *)
(*                                                                         *)
(* Specifications.  SpecScore: sunScore; SpecShade: isShadedByBuildings;   *)
(* SpecRoute: the handler of /api/terraces/nearby; SpecAngle:              *)
(* angleDiffDeg; SpecAzimuth: the two azimuth conversions; SpecPlaces:     *)
(* getNearbyBarsAndRestaurants with its cache and the cleanup timer.       *)
(***************************************************************************)
EXTENDS Integers, Sequences, FiniteSets, TLC

VARIABLES
    sky,        \* the ephemeris: the sun's position at date 0
    scArgs,     \* sunScore: the argument object
    scPc,       \* sunScore: position in the function
    score,      \* sunScore: the local `score`
    scRet,      \* sunScore: the returned value
    shArgs,     \* isShadedByBuildings: terrace, sun, buildings, opts
    shPc,       \* isShadedByBuildings: position in the function
    shI,        \* isShadedByBuildings: index of the next building of the loop
    best,       \* isShadedByBuildings: the local `best`
    shRet,      \* isShadedByBuildings: the returned value
    rPc,        \* route: position of the handler (its awaits)
    query,      \* route: the parsed query of the request
    weather,    \* route: what the weather collaborator answered for the request
    meteoCache, \* meteo.js: the NodeCache entry of the request's key
    cloudFraction, \* route: the local `cloudFraction`
    places,     \* route: the local `places`
    buildings,  \* route: the local `buildings`
    now,        \* route: the local `now`
    response,   \* route: the response sent
    adArgs,     \* angleDiffDeg: the arguments a and b
    adPc,       \* angleDiffDeg: position in the function
    adRet,      \* angleDiffDeg: the returned value
    azArgs,     \* azimuth conversions: the date and the point
    azPc,       \* azimuth conversions: which of the two have run
    azRet,      \* azimuth conversions: sunScore's az, getSunAngles' azimuthDeg
    clock,      \* places lookup: Date.now(), in minutes since the process started
    nextCleanup, \* places lookup: when the cleanup timer fires next
    placeCache, \* places lookup: the entry of the Map `cache` under the key
    lkPc,       \* places lookup: position in getNearbyBarsAndRestaurants
    lkRet       \* places lookup: the value returned, where from and when

scoreVars == <<scArgs, scPc, score, scRet>>

shadeVars == <<shArgs, shPc, shI, best, shRet>>

routeVars == <<rPc, query, weather, meteoCache, cloudFraction, places, buildings, now,
               response>>

angleVars == <<adArgs, adPc, adRet>>

\* The variables of the functions checked on their own, apart from the scorer
\* and the shadow evaluator.
azVars == <<azArgs, azPc, azRet>>

placeVars == <<clock, nextCleanup, placeCache, lkPc, lkRet>>

restVars == <<angleVars, azVars, placeVars>>

(***************************************************************************)
(* Arithmetic of the host language.                                        *)
(***************************************************************************)
Abs(x) == IF x < 0 THEN -x ELSE x

Min(a, b) == IF a < b THEN a ELSE b

Max(a, b) == IF a > b THEN a ELSE b

\* JavaScript's %: the remainder takes the sign of the dividend.
JsMod(x, m) == IF x >= 0 THEN x % m ELSE -((-x) % m)

\* Math.round of the fraction n/d (d > 0): the nearest integer, halves upward.
MathRound(n, d) == (2 * n + d) \div (2 * d)

None == <<>>

Some(v) == <<v>>

IsNumber(o) == Len(o) = 1

(***************************************************************************)
(* SunCalc.getPosition: the external ephemeris.  The sky is the position   *)
(* at date 0 (azimuth measured from south, positive toward west, and       *)
(* altitude, in degrees); the sun then moves west one degree every         *)
(* 4 minutes and sinks one degree every 8 minutes.  Dates are minutes.     *)
(* The venues of one request lie within a few hundred metres of each       *)
(* other, so the position does not depend on lat and lon.                  *)
(***************************************************************************)
getPosition(date, lat, lon) ==
    LET a == sky.azimuth + (date \div 4)
    IN  [azimuth  |-> IF a > 180 THEN a - 360 ELSE a,
         altitude |-> sky.altitude - (date \div 8)]

(***************************************************************************)
(* sunScore, src/src/services/meteo.js:23-53.                              *)
(***************************************************************************)
\* An azimuth left in the ephemeris convention (0 = south).
sunScoreAzFromSouth(pos) == JsMod(pos.azimuth, 360)

\* lines 31-37: the sun's compass azimuth and the facing offset.
sunScoreAz(pos) == JsMod(pos.azimuth + 180, 360)

sunScoreDiff(az, orientationDeg) ==
    Min(Abs(az - orientationDeg), 360 - Abs(az - orientationDeg))

\* lines 39-42
alignBand(diff) ==
    IF diff < 45 THEN 55 ELSE IF diff < 90 THEN 35 ELSE 10

\* lines 43-45
altitudeBand(alt) ==
    IF alt < 8 THEN -30 ELSE IF alt < 15 THEN -15 ELSE 10

\* A street penalty that forgets the altitude guard of line 46.
streetBandAnyAltitude(alt, streetWidth) ==
    IF streetWidth = "narrow" THEN -15
    ELSE IF streetWidth = "medium" THEN -5 ELSE 0

\* lines 46-49
streetBand(alt, streetWidth) ==
    IF alt < 20
    THEN IF streetWidth = "narrow" THEN -15
         ELSE IF streetWidth = "medium" THEN -5 ELSE 0
    ELSE 0

\* lines 31-49: the running score before the cloud attenuation.
bandScore(args) ==
    LET pos  == getPosition(args.date, args.lat, args.lon)
        az   == sunScoreAz(pos)
        alt  == pos.altitude
        diff == sunScoreDiff(az, args.orientationDeg)
    IN  0 + alignBand(diff) + altitudeBand(alt) + streetBand(alt, args.streetWidth)

\* An attenuation of 0.4 per unit of cloud in place of 0.6.
cloudNumWeak(s, cf) ==
    IF IsNumber(cf) THEN s * (1000 - 4 * cf[1]) ELSE s

\* line 50: score *= 1 - 0.6 * cloudFraction, as the fraction num/den.
cloudNum(s, cf) ==
    IF IsNumber(cf) THEN s * (1000 - 6 * cf[1]) ELSE s

cloudDen(cf) ==
    IF IsNumber(cf) THEN 1000 ELSE 1

\* A return that forgets the lower clamp Math.max(0, ...).
attenuateNoFloor(s, cf) ==
    Min(100, MathRound(cloudNum(s, cf), cloudDen(cf)))

\* lines 50-52
attenuate(s, cf) ==
    Max(0, Min(100, MathRound(cloudNum(s, cf), cloudDen(cf))))

sunScore(args) == attenuate(bandScore(args), args.cloudFraction)

(***************************************************************************)
(* Geometry and sun angles, src/index.js:667-709.  Latitudes are metres    *)
(* north of a reference point and every point has the same longitude.      *)
(***************************************************************************)
\* A difference that forgets the wrap at 360.
angleDiffNoWrap(a, b) == Abs(a - b)

\* lines 674-678
angleDiffDeg(a, b) == Abs(JsMod(a - b + 540, 360) - 180)

\* lines 680-690, on one meridian: y = 0 and x has the sign of lat2 - lat1,
\* so atan2(y, x) is 0 (north, or the same point) or 180 degrees (south).
bearingDeg(lat1, lon1, lat2, lon2) ==
    JsMod((IF lat2 < lat1 THEN 180 ELSE 0) + 360, 360)

\* lines 692-700, on one meridian: dx = 0 and hypot(0, dy) = |dy|.
distanceMeters(lat1, lon1, lat2, lon2) == Abs(lat2 - lat1)

\* line 747: toDeg(Math.atan2(h, d)) for d >= 0, where it is a whole number
\* of degrees (the buildings of the model are chosen among these cases).
atan2Deg(h, d) ==
    CASE h = 0 -> 0
      [] h # 0 /\ d = 0 -> IF h > 0 THEN 90 ELSE -90
      [] h # 0 /\ d # 0 /\ h = d -> 45
      [] h # 0 /\ d # 0 /\ h = -d -> -45

\* lines 704-709
getSunAngles(date, lat, lon) ==
    LET pos == getPosition(date, lat, lon)
    IN  [azimuthDeg  |-> JsMod(pos.azimuth + 180 + 360, 360),
         altitudeDeg |-> pos.altitude]

(***************************************************************************)
(* isShadedByBuildings, src/index.js:717-756.                              *)
(***************************************************************************)
\* line 727
notShaded == [shaded |-> FALSE, confidence |-> 0, culprit |-> None]

\* The confidence 1 as a numerator: confidences are fractions over
\* 10 * azTolerance (line 750).
ConfDen(opts) == 10 * opts.azTolerance

\* line 724
azUpSun(sun) == JsMod(sun.azimuthDeg + 180, 360)

\* lines 730-735
distTo(terrace, b) ==
    distanceMeters(terrace.lat, terrace.lon, b.centroid.lat, b.centroid.lon)

\* lines 738-744
deltaTo(terrace, sun, b) ==
    angleDiffDeg(bearingDeg(terrace.lat, terrace.lon, b.centroid.lat, b.centroid.lon),
                 azUpSun(sun))

\* A distance filter that lets every building through.
tooFarNever(d, maxDist) == FALSE

\* line 736
tooFar(d, maxDist) == d > maxDist

\* A tolerance filter that also skips the boundary.
offAxisInclusive(delta, azTolerance) == delta >= azTolerance

\* line 745
offAxis(delta, azTolerance) == delta > azTolerance

\* line 747; height_m || 0 is height_m for a number.
elevOf(terrace, b) == atan2Deg(b.height_m, distTo(terrace, b))

\* line 748
occludes(elev, alt) == elev >= alt

\* A confidence that forgets the cap Math.min(1, ...).
confNoCap(elev, alt, delta, opts) ==
    (elev - alt) * (opts.azTolerance - delta)

\* A confidence that is 1 as soon as the elevation margin reaches 10 degrees.
confByMarginAlone(elev, alt, delta, opts) ==
    IF elev - alt >= 10 /\ delta < opts.azTolerance THEN ConfDen(opts)
    ELSE Min(ConfDen(opts), (elev - alt) * (opts.azTolerance - delta))

\* line 750: Math.min(1, ((elev - alt) / 10) * (1 - delta / azTolerance))
confOf(elev, alt, delta, opts) ==
    Min(ConfDen(opts), (elev - alt) * (opts.azTolerance - delta))

\* line 751
replaces(conf, bst) == conf > bst.confidence

\* lines 729-753: one iteration of the loop over the buildings.
scanStep(bst, b, terrace, sun, opts) ==
    LET d     == distTo(terrace, b)
        delta == deltaTo(terrace, sun, b)
        alt   == sun.altitudeDeg
    IN  IF tooFar(d, opts.maxDist) THEN bst
        ELSE IF offAxis(delta, opts.azTolerance) THEN bst
        ELSE LET elev == elevOf(terrace, b)
             IN  IF occludes(elev, alt)
                 THEN LET conf == confOf(elev, alt, delta, opts)
                      IN  IF replaces(conf, bst)
                          THEN [shaded |-> TRUE, confidence |-> conf, culprit |-> Some(b)]
                          ELSE bst
                 ELSE bst

RECURSIVE scanFrom(_, _, _, _, _, _)
scanFrom(bst, i, terrace, sun, blds, opts) ==
    IF i > Len(blds) THEN bst
    ELSE scanFrom(scanStep(bst, blds[i], terrace, sun, opts), i + 1,
                  terrace, sun, blds, opts)

isShadedByBuildings(terrace, sun, blds, opts) ==
    scanFrom(notShaded, 1, terrace, sun, blds, opts)

(***************************************************************************)
(* The scorer on its own: every sky, orientation, street width and cloud   *)
(* fraction of the sets below.                                             *)
(***************************************************************************)
SkyAzimuths == {-180, -136, -135, -91, -90, -46, -45, -1, 0, 44, 45, 89, 90, 135, 180}

SkyAltitudes == {-90, -10, 0, 7, 8, 14, 15, 19, 20, 21, 45, 90}

\* orientationDeg is any number the caller passes: compass bearings, and
\* values outside 0..359.
Orientations == {-100, 0, 37, 90, 180, 225, 359, 400}

StreetWidths == {"narrow", "medium", "wide"}

CloudFractions == {None, Some(0), Some(10), Some(30), Some(50), Some(99), Some(100)}

ScoreArgs ==
    [lat : {0}, lon : {0}, orientationDeg : Orientations,
     streetWidth : StreetWidths, date : {0}, cloudFraction : CloudFractions]

ScoreIdle ==
    /\ scArgs = [lat |-> 0, lon |-> 0, orientationDeg |-> 0, streetWidth |-> "wide",
                 date |-> 0, cloudFraction |-> None]
    /\ scPc = "idle"
    /\ score = 0
    /\ scRet = None

ShadeIdle ==
    /\ shArgs = [terrace |-> [lat |-> 0, lon |-> 0],
                 sun |-> [azimuthDeg |-> 0, altitudeDeg |-> 0],
                 buildings |-> <<>>, given |-> "array",
                 opts |-> [maxDist |-> 80, azTolerance |-> 25]]
    /\ shPc = "idle"
    /\ shI = 0
    /\ best = notShaded
    /\ shRet = None

NoQuery == [valid |-> FALSE, forecast |-> FALSE, demo |-> FALSE]

NoResponse == [status |-> 0, body |-> <<>>]

RouteLocalsIdle ==
    /\ rPc = "idle"
    /\ query = NoQuery
    /\ weather = "none"
    /\ cloudFraction = None
    /\ places = <<>>
    /\ buildings = <<>>
    /\ now = 0
    /\ response = NoResponse

RouteIdle == RouteLocalsIdle /\ meteoCache = None

AngleIdle ==
    /\ adArgs = [a |-> 0, b |-> 0]
    /\ adPc = "idle"
    /\ adRet = None

AzimuthIdle ==
    /\ azArgs = [date |-> 0, lat |-> 0, lon |-> 0]
    /\ azPc = "idle"
    /\ azRet = [scorer |-> None, evaluator |-> None]

\* src/index.js:373: CACHE_DURATION = 5 * 60 * 1000 ms, in minutes
CACHE_DURATION == 5

\* src/index.js:650: the period of the cleanup timer, 60 * 60 * 1000 ms
CleanupPeriod == 60

PlacesIdle ==
    /\ clock = 0
    /\ nextCleanup = CleanupPeriod
    /\ placeCache = None
    /\ lkPc = "idle"
    /\ lkRet = None

RestIdle == AngleIdle /\ AzimuthIdle /\ PlacesIdle

ScoreInit ==
    /\ sky \in [azimuth : SkyAzimuths, altitude : SkyAltitudes]
    /\ scArgs \in ScoreArgs
    /\ scPc = "bands"
    /\ score = 0
    /\ scRet = None
    /\ ShadeIdle
    /\ RouteIdle
    /\ RestIdle

\* lines 31-49
SunScoreBands ==
    /\ scPc = "bands"
    /\ score' = bandScore(scArgs)
    /\ scPc' = "cloud"
    /\ UNCHANGED <<restVars, sky, scArgs, scRet, shadeVars, routeVars>>

\* lines 50-52
SunScoreReturn ==
    /\ scPc = "cloud"
    /\ scRet' = Some(attenuate(score, scArgs.cloudFraction))
    /\ scPc' = "done"
    /\ UNCHANGED <<restVars, sky, scArgs, score, shadeVars, routeVars>>

vars == <<sky, scoreVars, shadeVars, routeVars, restVars>>

ScoreNext == SunScoreBands \/ SunScoreReturn

SpecScore == ScoreInit /\ [][ScoreNext]_vars

(***************************************************************************)
(* The shadow evaluator on its own: a terrace at the reference point, and  *)
(* every list of at most MaxBuildings buildings of the catalogue.  Each    *)
(* building of the catalogue is seen from the terrace at an elevation of   *)
(* 0, 45 or 90 degrees, or lies beyond every maxDist of ShadeOpts.         *)
(***************************************************************************)
MaxBuildings == 2

Building(id, lat, h) ==
    [id |-> id, height_m |-> h, centroid |-> [lat |-> lat, lon |-> 0]]

BuildingCatalogue ==
    { Building(1, 50, 50),      \* north, 45 degrees
      Building(2, 50, 50),      \* the same geometry, another building
      Building(3, 80, 80),      \* north, at 80 m exactly
      Building(4, 81, 81),      \* north, beyond 80 m
      Building(5, 40, 0),       \* north, no height
      Building(6, 0, 12),       \* on the terrace itself: 90 degrees
      Building(7, -50, 50),     \* south, 45 degrees
      Building(8, 30, 30) }     \* north, 45 degrees, nearer

RECURSIVE SeqsUpTo(_, _)
SeqsUpTo(S, n) ==
    IF n = 0 THEN {<<>>}
    ELSE LET shorter == SeqsUpTo(S, n - 1)
         IN  shorter \cup {Append(q, x) : q \in shorter, x \in S}

SunAzimuths == {180, 170, 155, 154, 0, 204}

SunAltitudes == {-5, 0, 35, 40, 45, 50, 85}

ShadeOpts == {[maxDist |-> 80, azTolerance |-> 25], [maxDist |-> 50, azTolerance |-> 10]}

\* What the caller passes as `buildings`: an array (the field buildings holds
\* its elements), or a value that is not iterable.
NotIterable == {"undefined", "null", "object"}

ShadeInit ==
    /\ sky = [azimuth |-> 0, altitude |-> 0]
    /\ ScoreIdle
    /\ shArgs \in [terrace : {[lat |-> 0, lon |-> 0]},
                   sun : [azimuthDeg : SunAzimuths, altitudeDeg : SunAltitudes],
                   buildings : SeqsUpTo(BuildingCatalogue, MaxBuildings),
                   given : {"array"},
                   opts : ShadeOpts]
               \cup
               [terrace : {[lat |-> 0, lon |-> 0]},
                sun : [azimuthDeg : SunAzimuths, altitudeDeg : SunAltitudes],
                buildings : {<<>>},
                given : NotIterable,
                opts : ShadeOpts]
    /\ shPc = "loop"
    /\ shI = 1
    /\ best = notShaded
    /\ shRet = None
    /\ RouteIdle
    /\ RestIdle

\* lines 729-754: one iteration of the loop
ShadeLoop ==
    /\ shPc = "loop"
    /\ shArgs.given = "array"
    /\ shI <= Len(shArgs.buildings)
    /\ best' = scanStep(best, shArgs.buildings[shI], shArgs.terrace, shArgs.sun,
                        shArgs.opts)
    /\ shI' = shI + 1
    /\ UNCHANGED <<restVars, sky, scoreVars, shArgs, shPc, shRet, routeVars>>

\* line 755
ShadeReturn ==
    /\ shPc = "loop"
    /\ shArgs.given = "array"
    /\ shI > Len(shArgs.buildings)
    /\ shRet' = Some(best)
    /\ shPc' = "done"
    /\ UNCHANGED <<restVars, sky, scoreVars, shArgs, shI, best, routeVars>>

\* line 729: for (const b of buildings) asks the value for its iterator; a
\* value without one makes the statement raise a TypeError, which nothing in
\* the function catches.
ShadeThrow ==
    /\ shPc = "loop"
    /\ shArgs.given \in NotIterable
    /\ shPc' = "threw"
    /\ UNCHANGED <<restVars, sky, scoreVars, shArgs, shI, best, shRet, routeVars>>

ShadeNext == ShadeLoop \/ ShadeReturn \/ ShadeThrow

SpecShade == ShadeInit /\ [][ShadeNext]_vars

(***************************************************************************)
(* getCloudFraction, src/src/services/meteo.js:4-19.  The answer w of the  *)
(* weather collaborator is a network error (fetch rejects), a non-OK       *)
(* response, a body that is not JSON (res.json() rejects), a body without  *)
(* a numeric cloud cover, or a cloud cover in percent.  The result is the  *)
(* value returned or the rejection, and the cache entry afterwards.        *)
(***************************************************************************)
WeatherAnswers ==
    {[kind |-> "networkError"], [kind |-> "notOk"], [kind |-> "badJson"],
     [kind |-> "noCover"]}
        \cup {[kind |-> "cover", cover |-> c] : c \in {40, 130}}

\* line 16: Math.max(0, Math.min(1, cover / 100)), as a percentage
coverFrac(cover) == Max(0, Min(100, cover))

getCloudFraction(cache, w) ==
    IF cache # None
    THEN [rejected |-> FALSE, value |-> cache, cache |-> cache]           \* lines 8-9
    ELSE IF w.kind \in {"networkError", "badJson"}
    THEN [rejected |-> TRUE, value |-> None, cache |-> cache]            \* lines 11, 13
    ELSE IF w.kind \in {"notOk", "noCover"}
    THEN [rejected |-> FALSE, value |-> None, cache |-> cache]           \* lines 12, 15
    ELSE [rejected |-> FALSE, value |-> Some(coverFrac(w.cover)),
          cache |-> Some(coverFrac(w.cover))]                            \* lines 16-18

\* src/index.js:527-530: getCloudFraction(lat, lon).catch(() => 0.3)
cloudFractionOrDefault(r) == IF r.rejected THEN Some(30) ELSE r.value

(***************************************************************************)
(* The places and buildings of a request.  The query point is the          *)
(* reference point; places lie on it or 100 m north of it, so that every   *)
(* building within 80 m of a place is seen from it at 0, 45 or 90 degrees. *)
(***************************************************************************)
MaxPlaces == 2

\* src/index.js:445-470: the place made from an element of the provider
Place(id, lat, amenity) ==
    [id |-> id, lat |-> lat, lon |-> 0,
     orientationDeg |-> JsMod(id * 37, 360),
     streetWidth |-> IF amenity = "cafe" THEN "narrow"
                     ELSE IF amenity = "biergarten" THEN "wide" ELSE "medium",
     distance_m |-> Abs(lat)]

PlaceCatalogue ==
    {Place(1, 0, "cafe"), Place(5, 0, "bar"), Place(10, 100, "biergarten")}

RouteBuildingCatalogue ==
    { Building(1, 50, 50),      \* 50 m from both places, 45 degrees
      Building(2, 60, 0),       \* no height
      Building(3, 0, 12),       \* on the first places: 90 degrees
      Building(4, 150, 50) }    \* 50 m north of the far place only

\* Lists without repetition of at most n elements of S.
RECURSIVE DistinctSeqsUpTo(_, _)
DistinctSeqsUpTo(S, n) ==
    IF n = 0 THEN {<<>>}
    ELSE LET shorter == DistinctSeqsUpTo(S, n - 1)
         IN  shorter \cup
             UNION {{Append(q, x) : x \in {y \in S : \A k \in 1..Len(q) : q[k] # y}} :
                    q \in shorter}

\* Array.prototype.sort (stable) as an insertion sort under the comparator
\* (a, b) => dir * (a[field] - b[field]): x goes before the elements the
\* comparator puts it strictly before, after the others.
RECURSIVE insertSorted(_, _, _, _)
insertSorted(sorted, x, field, dir) ==
    IF sorted = <<>> THEN <<x>>
    ELSE IF dir * (x[field] - sorted[Len(sorted)][field]) < 0
         THEN Append(insertSorted(SubSeq(sorted, 1, Len(sorted) - 1), x, field, dir),
                     sorted[Len(sorted)])
         ELSE Append(sorted, x)

RECURSIVE sortFrom(_, _, _, _, _)
sortFrom(sorted, q, i, field, dir) ==
    IF i > Len(q) THEN sorted
    ELSE sortFrom(insertSorted(sorted, q[i], field, dir), q, i + 1, field, dir)

\* src/index.js:471: .sort((a, b) => a.distance_m - b.distance_m)
byDistance(q) == sortFrom(<<>>, q, 1, "distance_m", 1)

(***************************************************************************)
(* The scoring pass of the route, src/index.js:545-622.                    *)
(***************************************************************************)
\* lines 578, 607
RouteOpts == [maxDist |-> 80, azTolerance |-> 25]

\* A shade factor of 0.4 whatever the confidence.
shadeFactorFlat(shade) ==
    IF shade.shaded THEN 2 * ConfDen(RouteOpts) ELSE 5 * ConfDen(RouteOpts)

\* lines 580-582, 609-611: the shade factor, over 5 * ConfDen(RouteOpts);
\* shade.confidence || 0 is shade.confidence for a number.
shadeFactorNum(shade) ==
    IF shade.shaded THEN 2 * ConfDen(RouteOpts) - shade.confidence
    ELSE 5 * ConfDen(RouteOpts)

\* lines 583-586, 612
publish(raw, shade) ==
    Max(0, Min(100, MathRound(raw * shadeFactorNum(shade), 5 * ConfDen(RouteOpts))))

\* lines 563-586 (date = now) and 594-612 (date = d)
scoreAt(p, date, cf, blds) ==
    LET raw   == sunScore([lat |-> p.lat, lon |-> p.lon,
                           orientationDeg |-> p.orientationDeg,
                           streetWidth |-> p.streetWidth,
                           date |-> date, cloudFraction |-> cf])
        sun   == getSunAngles(date, p.lat, p.lon)
        shade == isShadedByBuildings([lat |-> p.lat, lon |-> p.lon], sun, blds, RouteOpts)
    IN  publish(raw, shade)

\* line 592
forecastOffsets == <<0, 15, 30, 45, 60, 90, 120>>

\* A forecast point evaluated at now instead of now + min.
forecastPointStale(p, min, nw, cf, blds) ==
    [tmin |-> min, score |-> scoreAt(p, nw, cf, blds)]

\* A forecast point that leaves the buildings out.
forecastPointUnshaded(p, min, nw, cf, blds) ==
    [tmin |-> min, score |-> scoreAt(p, nw + min, cf, <<>>)]

\* lines 593-613: d = now + min minutes
forecastPoint(p, min, nw, cf, blds) ==
    [tmin |-> min, score |-> scoreAt(p, nw + min, cf, blds)]

\* lines 592-614
forecastOf(p, nw, cf, blds) ==
    [i \in 1..Len(forecastOffsets) |-> forecastPoint(p, forecastOffsets[i], nw, cf, blds)]

\* lines 547-618: the item of one place (of the pass-through fields, those
\* that identify and locate the place)
itemOf(p, withForecast, nw, cf, blds) ==
    [id |-> p.id, lat |-> p.lat, lon |-> p.lon, orientationDeg |-> p.orientationDeg,
     streetWidth |-> p.streetWidth, distance_m |-> p.distance_m,
     sunScore |-> scoreAt(p, nw, cf, blds),
     forecast |-> IF withForecast THEN Some(forecastOf(p, nw, cf, blds)) ELSE None]

\* The items left in the order of the places.
itemsAsMapped(q) == q

\* line 620: items.sort((a, b) => b.sunScore - a.sunScore)
bySunScore(q) == sortFrom(<<>>, q, 1, "sunScore", -1)

(***************************************************************************)
(* GET /api/terraces/nearby, src/index.js:506-631, one step per await.     *)
(***************************************************************************)
RouteSkies ==
    {[azimuth |-> -27, altitude |-> 50], [azimuth |-> 150, altitude |-> 22],
     [azimuth |-> 0, altitude |-> 5], [azimuth |-> 90, altitude |-> 60]}

\* The dates (minutes) at which a request is scored.
RouteNows == {20}

RouteInit ==
    /\ sky \in RouteSkies
    /\ ScoreIdle
    /\ ShadeIdle
    /\ RouteIdle
    /\ RestIdle

\* lines 507-523
RouteRequest ==
    /\ rPc = "idle"
    /\ \E v \in BOOLEAN, f \in BOOLEAN, d \in BOOLEAN :
          /\ query' = [valid |-> v, forecast |-> f, demo |-> d]
          /\ IF v
             THEN rPc' = "weather" /\ response' = NoResponse
             ELSE rPc' = "done" /\ response' = [status |-> 400, body |-> <<>>]
    /\ UNCHANGED <<restVars, sky, scoreVars, shadeVars, weather, meteoCache, cloudFraction, places,
                   buildings, now>>

\* lines 527-530
RouteWeather ==
    /\ rPc = "weather"
    /\ \E w \in WeatherAnswers :
          LET r == getCloudFraction(meteoCache, w)
          IN  /\ weather' = IF meteoCache # None THEN "cached" ELSE w.kind
              /\ meteoCache' = r.cache
              /\ cloudFraction' = cloudFractionOrDefault(r)
    /\ rPc' = "places"
    /\ UNCHANGED <<restVars, sky, scoreVars, shadeVars, query, places, buildings, now, response>>

\* lines 533-538: the places the lookup returns, nearest first
RoutePlaces ==
    /\ rPc = "places"
    /\ IF query.demo
       THEN places' = <<>>
       ELSE \E found \in DistinctSeqsUpTo(PlaceCatalogue, MaxPlaces) :
               places' = byDistance(found)
    /\ rPc' = "buildings"
    /\ UNCHANGED <<restVars, sky, scoreVars, shadeVars, query, weather, meteoCache, cloudFraction,
                   buildings, now, response>>

\* lines 541-543: the buildings the lookup returns, or [] when it fails
RouteBuildings ==
    /\ rPc = "buildings"
    /\ \E found \in DistinctSeqsUpTo(RouteBuildingCatalogue, MaxBuildings) :
          buildings' = found
    /\ rPc' = "score"
    /\ UNCHANGED <<restVars, sky, scoreVars, shadeVars, query, weather, meteoCache, cloudFraction,
                   places, now, response>>

\* lines 545-622
RouteScore ==
    /\ rPc = "score"
    /\ \E t \in RouteNows :
          /\ now' = t
          /\ response' =
                [status |-> 200,
                 body |-> bySunScore([i \in 1..Len(places) |->
                             itemOf(places[i], query.forecast, t, cloudFraction,
                                    buildings)])]
    /\ rPc' = "done"
    /\ UNCHANGED <<restVars, sky, scoreVars, shadeVars, query, weather, meteoCache, cloudFraction,
                   places, buildings>>

\* The request is over; the next one finds the cache as it is.
RouteEnd ==
    /\ rPc = "done"
    /\ rPc' = "idle"
    /\ query' = NoQuery
    /\ weather' = "none"
    /\ cloudFraction' = None
    /\ places' = <<>>
    /\ buildings' = <<>>
    /\ now' = 0
    /\ response' = NoResponse
    /\ UNCHANGED <<restVars, sky, scoreVars, shadeVars, meteoCache>>

\* meteo.js:2: the entry expires (stdTTL 300 s) between two requests.
MeteoExpire ==
    /\ rPc = "idle"
    /\ meteoCache # None
    /\ meteoCache' = None
    /\ UNCHANGED <<restVars, sky, scoreVars, shadeVars, rPc, query, weather, cloudFraction, places,
                   buildings, now, response>>

RouteNext ==
    \/ RouteRequest
    \/ RouteWeather
    \/ RoutePlaces
    \/ RouteBuildings
    \/ RouteScore
    \/ RouteEnd
    \/ MeteoExpire

SpecRoute == RouteInit /\ [][RouteNext]_vars

(***************************************************************************)
(* angleDiffDeg on its own, src/index.js:674-678: every pair of whole       *)
(* bearings of [0,360).                                                    *)
(***************************************************************************)
Bearings == 0..359

AngleInit ==
    /\ sky = [azimuth |-> 0, altitude |-> 0]
    /\ ScoreIdle
    /\ ShadeIdle
    /\ RouteIdle
    /\ adArgs \in [a : Bearings, b : Bearings]
    /\ adPc = "call"
    /\ adRet = None
    /\ AzimuthIdle
    /\ PlacesIdle

\* lines 675-677
AngleDiffReturn ==
    /\ adPc = "call"
    /\ adRet' = Some(angleDiffDeg(adArgs.a, adArgs.b))
    /\ adPc' = "done"
    /\ UNCHANGED <<sky, scoreVars, shadeVars, routeVars, adArgs, azVars, placeVars>>

AngleNext == AngleDiffReturn

SpecAngle == AngleInit /\ [][AngleNext]_vars

(***************************************************************************)
(* The two conversions of the ephemeris azimuth to a compass bearing, for  *)
(* every whole azimuth of [-180,180]: the one inside sunScore              *)
(* (meteo.js:31-33) and the one of getSunAngles (index.js:704-709), both   *)
(* at the same date and point.                                             *)
(***************************************************************************)
EphemerisAzimuths == -180..180

EphemerisAltitudes == {-10, 30}

AzimuthDates == {0, 60}

AzimuthInit ==
    /\ sky \in [azimuth : EphemerisAzimuths, altitude : EphemerisAltitudes]
    /\ ScoreIdle
    /\ ShadeIdle
    /\ RouteIdle
    /\ AngleIdle
    /\ azArgs \in [date : AzimuthDates, lat : {0}, lon : {0}]
    /\ azPc = "scorer"
    /\ azRet = [scorer |-> None, evaluator |-> None]
    /\ PlacesIdle

\* meteo.js:31-33
SunScoreAzimuth ==
    /\ azPc = "scorer"
    /\ azRet' = [azRet EXCEPT
                    !.scorer = Some(sunScoreAz(getPosition(azArgs.date, azArgs.lat,
                                                           azArgs.lon)))]
    /\ azPc' = "evaluator"
    /\ UNCHANGED <<sky, scoreVars, shadeVars, routeVars, angleVars, azArgs, placeVars>>

\* index.js:704-709
GetSunAnglesAzimuth ==
    /\ azPc = "evaluator"
    /\ azRet' = [azRet EXCEPT
                    !.evaluator = Some(getSunAngles(azArgs.date, azArgs.lat,
                                                    azArgs.lon).azimuthDeg)]
    /\ azPc' = "done"
    /\ UNCHANGED <<sky, scoreVars, shadeVars, routeVars, angleVars, azArgs, placeVars>>

AzimuthNext == SunScoreAzimuth \/ GetSunAnglesAzimuth

SpecAzimuth == AzimuthInit /\ [][AzimuthNext]_vars

(***************************************************************************)
(* Properties of the azimuth conversions (SpecAzimuth).                    *)
(***************************************************************************)
\* C17: for every ephemeris azimuth a in [-180,180], the azimuth used inside
\* sunScore and the azimuth returned by getSunAngles are the same compass
\* bearing: both equal (a + 180 + 360) mod 360 and lie in [0,360).
C17_SameCompassBearing ==
    azPc = "done" =>
        LET a == getPosition(azArgs.date, azArgs.lat, azArgs.lon).azimuth
        IN  /\ a \in -180..180
            /\ azRet.scorer = azRet.evaluator
            /\ azRet.scorer = Some((a + 180 + 360) % 360)
            /\ azRet.scorer[1] >= 0 /\ azRet.scorer[1] < 360

C17_Witness ==
    /\ azPc = "done"
    /\ azArgs.date = 0
    /\ sky.azimuth = 180
    /\ azRet = [scorer |-> Some(0), evaluator |-> Some(0)]

(***************************************************************************)
(* Properties of angleDiffDeg (SpecAngle).                                 *)
(***************************************************************************)
\* C13: for all bearings a and b in [0,360), angleDiffDeg(a, b) equals
\* angleDiffDeg(b, a), lies in [0,180], and equals min(|a-b|, 360-|a-b|).
C13_AngleDiffSymmetric ==
    adPc = "done" =>
        LET a == adArgs.a
            b == adArgs.b
        IN  /\ adRet[1] = angleDiffDeg(b, a)
            /\ adRet[1] >= 0 /\ adRet[1] <= 180
            /\ adRet[1] = Min(Abs(a - b), 360 - Abs(a - b))

C13_Witness ==
    /\ adPc = "done"
    /\ adArgs = [a |-> 350, b |-> 10]
    /\ adRet = Some(20)

(***************************************************************************)
(* getNearbyBarsAndRestaurants and the cleanup timer on their own,         *)
(* src/index.js:393-502 and 641-650, for one cache key (one query point    *)
(* and radius) and one lookup at a time.  Time is in whole minutes; it     *)
(* passes between lookups and while a lookup awaits the provider.          *)
(***************************************************************************)
MaxClock == 125

\* What the provider finds, before the sort of line 471.
ProviderFinds ==
    {<<Place(10, 100, "biergarten"), Place(1, 0, "cafe")>>, <<Place(5, 0, "bar")>>}

\* lines 479-500: the demo places made at time t (Date.now() in ms); dLat and
\* dLon are the offsets from the query point in 1/10000 degree.
demoPlaces(t) ==
    <<[id |-> t * 60000 + 1, name |-> "Le Rayon Vert", dLat |-> 10, dLon |-> 10,
       amenity |-> "bar", orientationDeg |-> 180, streetWidth |-> "medium",
       distance_m |-> 120],
      [id |-> t * 60000 + 2, name |-> "Chez Azur", dLat |-> -10, dLon |-> 5,
       amenity |-> "restaurant", orientationDeg |-> 220, streetWidth |-> "narrow",
       distance_m |-> 340]>>

\* A freshness test that still accepts an entry of exactly CACHE_DURATION.
isFreshInclusive(cached, t) ==
    cached # None /\ t - cached[1].timestamp <= CACHE_DURATION

\* line 396: cached && Date.now() - cached.timestamp < CACHE_DURATION
isFresh(cached, t) ==
    cached # None /\ t - cached[1].timestamp < CACHE_DURATION

\* lines 435, 474: cache.set(cacheKey, {data, timestamp: Date.now()})
entryOf(data, t) == Some([data |-> data, timestamp |-> t])

\* lines 644-648, for the one key
cleaned(cached, t) ==
    IF cached # None /\ t - cached[1].timestamp > CACHE_DURATION * 12
    THEN None ELSE cached

PlacesInit ==
    /\ sky = [azimuth |-> 0, altitude |-> 0]
    /\ ScoreIdle
    /\ ShadeIdle
    /\ RouteIdle
    /\ AngleIdle
    /\ AzimuthIdle
    /\ PlacesIdle

\* lines 394-399: a fresh entry is returned at once
LookupCached ==
    /\ lkPc = "idle"
    /\ isFresh(placeCache, clock)
    /\ lkRet' = Some([from |-> "cache", data |-> placeCache[1].data, at |-> clock,
                       timestamp |-> placeCache[1].timestamp])
    /\ lkPc' = "returned"
    /\ UNCHANGED <<sky, scoreVars, shadeVars, routeVars, angleVars, azVars, clock,
                   nextCleanup, placeCache>>

\* lines 394-429: no fresh entry, the provider is queried
LookupQuery ==
    /\ lkPc = "idle"
    /\ ~isFresh(placeCache, clock)
    /\ lkRet' = None
    /\ lkPc' = "await"
    /\ UNCHANGED <<sky, scoreVars, shadeVars, routeVars, angleVars, azVars, clock,
                   nextCleanup, placeCache>>

\* lines 431-437: the provider answers without elements
ProviderEmpty ==
    /\ lkPc = "await"
    /\ placeCache' = entryOf(<<>>, clock)
    /\ lkRet' = Some([from |-> "provider", data |-> <<>>, at |-> clock,
                       timestamp |-> clock])
    /\ lkPc' = "returned"
    /\ UNCHANGED <<sky, scoreVars, shadeVars, routeVars, angleVars, azVars, clock,
                   nextCleanup>>

\* lines 431, 439-475: the provider answers with elements
ProviderFound ==
    /\ lkPc = "await"
    /\ \E found \in ProviderFinds :
          /\ placeCache' = entryOf(byDistance(found), clock)
          /\ lkRet' = Some([from |-> "provider", data |-> byDistance(found),
                             at |-> clock, timestamp |-> clock])
    /\ lkPc' = "returned"
    /\ UNCHANGED <<sky, scoreVars, shadeVars, routeVars, angleVars, azVars, clock,
                   nextCleanup>>

\* lines 476-501: the request to the provider fails
ProviderFails ==
    /\ lkPc = "await"
    /\ lkRet' = Some([from |-> "demo", data |-> demoPlaces(clock), at |-> clock,
                       timestamp |-> clock])
    /\ lkPc' = "returned"
    /\ UNCHANGED <<sky, scoreVars, shadeVars, routeVars, angleVars, azVars, clock,
                   nextCleanup, placeCache>>

\* The caller takes the value returned.
LookupEnd ==
    /\ lkPc = "returned"
    /\ lkRet' = None
    /\ lkPc' = "idle"
    /\ UNCHANGED <<sky, scoreVars, shadeVars, routeVars, angleVars, azVars, clock,
                   nextCleanup, placeCache>>

\* A minute passes (not between a return and its caller); the timer fires
\* when it is due.
Tick ==
    /\ clock < MaxClock
    /\ clock < nextCleanup
    /\ lkPc # "returned"
    /\ clock' = clock + 1
    /\ UNCHANGED <<sky, scoreVars, shadeVars, routeVars, angleVars, azVars, nextCleanup,
                   placeCache, lkPc, lkRet>>

\* lines 642-650
CacheCleanup ==
    /\ clock = nextCleanup
    /\ placeCache' = cleaned(placeCache, clock)
    /\ nextCleanup' = nextCleanup + CleanupPeriod
    /\ UNCHANGED <<sky, scoreVars, shadeVars, routeVars, angleVars, azVars, clock, lkPc,
                   lkRet>>

PlacesNext ==
    \/ LookupCached
    \/ LookupQuery
    \/ ProviderEmpty
    \/ ProviderFound
    \/ ProviderFails
    \/ LookupEnd
    \/ Tick
    \/ CacheCleanup

SpecPlaces == PlacesInit /\ [][PlacesNext]_vars

(***************************************************************************)
(* Properties of the places lookup (SpecPlaces).                           *)
(***************************************************************************)
\* The entry of the key is less than CACHE_DURATION old.
lkFreshEntry ==
    placeCache # None /\ clock - placeCache[1].timestamp < CACHE_DURATION

\* A step in which a lookup begins: it returns at once or starts to await.
lkBegins == lkPc = "idle" /\ lkPc' # "idle"

\* What the provider's answers become, and the demo places of any time.
lkProviderData == {<<>>} \cup {byDistance(found) : found \in ProviderFinds}

lkDemoData == {demoPlaces(t) : t \in 0..MaxClock}

\* A step in which the awaited provider fails and the demo places are returned.
lkFails ==
    /\ lkPc = "await"
    /\ lkPc' = "returned"
    /\ lkRet'[1].from = "demo"

lkServedFresh ==
    /\ (lkRet # None /\ lkRet[1].from = "cache") =>
            lkRet[1].at - lkRet[1].timestamp < CACHE_DURATION
    /\ placeCache # None =>
            /\ placeCache[1].data \in lkProviderData
            /\ lkProviderData \cap lkDemoData = {}

lkStep ==
    /\ lkFails => placeCache' = placeCache
    /\ lkBegins => (lkPc' = "await" <=> ~lkFreshEntry)
    /\ (lkBegins /\ lkFreshEntry) =>
            lkRet' = Some([from |-> "cache", data |-> placeCache[1].data, at |-> clock,
                           timestamp |-> placeCache[1].timestamp])

\* C19: across lookups, provider failures and hourly cleanups, a cached
\* response of age CACHE_DURATION (5 minutes) or more is never served, and the
\* demo places returned after a provider failure are never written to the
\* cache: a failed lookup leaves the cache unchanged, and a lookup queries the
\* provider unless an entry less than 5 minutes old exists.
C19_CacheServesOnlyFresh == []lkServedFresh /\ [][lkStep]_vars

C19_Witness ==
    /\ lkPc = "returned"
    /\ lkRet[1].from = "demo"
    /\ lkRet[1].at = clock
    /\ nextCleanup = 2 * CleanupPeriod
    /\ placeCache # None
    /\ clock - placeCache[1].timestamp >= CACHE_DURATION
    /\ placeCache[1].data # <<>>

(***************************************************************************)
(* Properties of sunScore (SpecScore).                                     *)
(***************************************************************************)
Clamp100(x) == Max(0, Min(100, x))

scPos == getPosition(scArgs.date, scArgs.lat, scArgs.lon)

scDiff == sunScoreDiff(sunScoreAz(scPos), scArgs.orientationDeg)

\* C1: for every sky (altitude <= 0 included), orientation in 0..359, street
\* width and cloud fraction (absent, or in [0,1], 1 included), sunScore returns
\* an integer in [0,100].
C1_ScoreInRange ==
    scPc = "done" => IsNumber(scRet) /\ scRet[1] \in 0..100

C1_Witness ==
    /\ scPc = "done"
    /\ scPos.altitude <= 0
    /\ scArgs.cloudFraction = Some(100)
    /\ score < 0
    /\ scRet = Some(0)

\* C6: the value returned is clamp(round(s * (1 - 0.6 * cloudFraction)), 0, 100)
\* for the running score s; under full overcast it is 0.4 times the clear-sky
\* value (75 becomes 30); without a cloud fraction it is the result for the
\* cloud fraction 0.
C6_CloudAttenuation ==
    scPc = "done" =>
        LET cf == scArgs.cloudFraction
            r  == scRet[1]
        IN  /\ IsNumber(cf) =>
                \E k \in -100..200 :
                    \* k - 1/2 <= s * (1 - 0.6 * cf) < k + 1/2
                    /\ 1000 * (2 * k - 1) <= 2 * score * (1000 - 6 * cf[1])
                    /\ 2 * score * (1000 - 6 * cf[1]) < 1000 * (2 * k + 1)
                    /\ r = Clamp100(k)
            /\ cf = Some(100) => 10 * r = 4 * Clamp100(score)
            /\ attenuate(75, Some(100)) = 30
            /\ cf = None =>
                /\ r = Clamp100(score)
                /\ r = sunScore([scArgs EXCEPT !.cloudFraction = Some(0)])

C6_Witness ==
    /\ scPc = "done"
    /\ scArgs.cloudFraction = Some(100)
    /\ score = 65
    /\ scRet = Some(26)

C7_Base(diff) ==
    CASE diff < 45 -> 55
      [] diff >= 45 /\ diff < 90 -> 35
      [] diff >= 90 -> 10

C7_AltAdj(alt) ==
    CASE alt < 8 -> -30
      [] alt >= 8 /\ alt < 15 -> -15
      [] alt >= 15 -> 10

C7_Street(alt, w) ==
    CASE alt >= 20 -> 0
      [] alt < 20 /\ w = "narrow" -> -15
      [] alt < 20 /\ w = "medium" -> -5
      [] alt < 20 /\ w = "wide" -> 0

C7_Bands ==
    LET alt == scPos.altitude
    IN  /\ score = C7_Base(scDiff) + C7_AltAdj(alt) + C7_Street(alt, scArgs.streetWidth)
        /\ alt >= 20 =>
            \A w \in StreetWidths : bandScore([scArgs EXCEPT !.streetWidth = w]) = score

C7_BestCase == scDiff = 0 /\ scPos.altitude > 20 /\ scArgs.streetWidth = "wide"

\* C7 as stated: before the cloud attenuation the running score is
\* base(diff) + altAdj(altitude) + street(altitude, streetWidth); it is 75 for
\* diff 0, an altitude above 20 and a wide street, and at an altitude of 20 or
\* more it does not depend on the street width.
C7_RunningScore ==
    scPc \in {"cloud", "done"} => (C7_Bands /\ (C7_BestCase => score = 75))

\* C7 as amended: the same, the running score for diff 0, an altitude above 20
\* and a wide street being 55 + 10 + 0 = 65.
C7_RunningScoreAmended ==
    scPc \in {"cloud", "done"} => (C7_Bands /\ (C7_BestCase => score = 65))

C7_Witness ==
    /\ scPc = "done"
    /\ C7_BestCase
    /\ score = 65
    /\ scArgs.cloudFraction = Some(0)
    /\ scRet = Some(65)

\* The minimal distance on the circle between two whole-degree angles.
C12_CircularDistance(a, b) ==
    LET x == (a - b) % 360 IN Min(x, 360 - x)

\* C12: the facing offset diff that sunScore compares against the 45/90 bands
\* is the minimal circular distance between the solar azimuth and the venue
\* orientation and lies in [0,180], for every orientationDeg including values
\* outside 0..359.
C12_FacingOffsetCircular ==
    scPc \in {"cloud", "done"} =>
        /\ scDiff \in 0..180
        /\ scDiff = C12_CircularDistance(sunScoreAz(scPos), scArgs.orientationDeg)

\* What the code does compute: the circular distance when orientationDeg is
\* in 0..359, where |az - orientationDeg| < 360.
C12_FacingOffsetCircularInRange ==
    (scPc \in {"cloud", "done"} /\ scArgs.orientationDeg \in 0..359) =>
        /\ scDiff \in 0..180
        /\ scDiff = C12_CircularDistance(sunScoreAz(scPos), scArgs.orientationDeg)

(***************************************************************************)
(* Properties of isShadedByBuildings (SpecShade).                          *)
(***************************************************************************)
shBuildings == shArgs.buildings

shDist(b) == distTo(shArgs.terrace, b)

shDelta(b) == deltaTo(shArgs.terrace, shArgs.sun, b)

shElev(b) == atan2Deg(b.height_m, shDist(b))

\* The three conditions of the specification: within maxDist, within
\* azTolerance of the sun-ward direction, apparent elevation >= solar altitude.
shOccluder(b) ==
    /\ shDist(b) <= shArgs.opts.maxDist
    /\ shDelta(b) <= shArgs.opts.azTolerance
    /\ shElev(b) >= shArgs.sun.altitudeDeg

shConf(b) ==
    Min(ConfDen(shArgs.opts),
        (shElev(b) - shArgs.sun.altitudeDeg) * (shArgs.opts.azTolerance - shDelta(b)))

shOccluders == {i \in 1..Len(shBuildings) : shOccluder(shBuildings[i])}

\* C2: shaded = true whenever some building of the list is within maxDist,
\* within azTolerance of the sun-ward direction and at an apparent elevation >=
\* the solar altitude; the not-shaded result only when no building is.
C2_ShadedIffOccluder ==
    shPc = "done" =>
        /\ shOccluders # {} => shRet[1].shaded
        /\ shOccluders = {} <=> shRet[1] = notShaded

\* What the code does return: shaded exactly when some occluder has a
\* confidence above 0.
C2_ShadedIffPositiveConfidence ==
    shPc = "done" =>
        (shRet[1].shaded <=> \E i \in shOccluders : shConf(shBuildings[i]) > 0)

\* C3: a building farther than maxDist never contributes: the result is the
\* result on the list without the buildings farther than maxDist, and the
\* culprit is never such a building.
shNear(b) == shDist(b) <= shArgs.opts.maxDist

C3_FarBuildingsIgnored ==
    shPc = "done" =>
        /\ shRet[1] = isShadedByBuildings(shArgs.terrace, shArgs.sun,
                                          SelectSeq(shBuildings, shNear), shArgs.opts)
        /\ shRet[1].culprit # None => shNear(shRet[1].culprit[1])

C3_Witness ==
    /\ shPc = "done"
    /\ Len(shBuildings) = 1
    /\ ~shNear(shBuildings[1])
    /\ shDelta(shBuildings[1]) = 0
    /\ shBuildings[1].height_m > 0
    /\ shArgs.sun.altitudeDeg < 45
    /\ shRet = Some(notShaded)

\* C4: a building at an angular difference of exactly azTolerance that is
\* otherwise occluding is not skipped by the tolerance filter, and its
\* confidence is exactly 0; a list whose occluders are all at the boundary
\* yields confidence 0.
shBoundary(b) == shOccluder(b) /\ shDelta(b) = shArgs.opts.azTolerance

C4_BoundaryConfidenceZero ==
    /\ \A i \in 1..Len(shBuildings) :
          shBoundary(shBuildings[i]) =>
              /\ ~offAxis(shDelta(shBuildings[i]), shArgs.opts.azTolerance)
              /\ confOf(shElev(shBuildings[i]), shArgs.sun.altitudeDeg,
                        shDelta(shBuildings[i]), shArgs.opts) = 0
    /\ (/\ shPc = "done"
        /\ shOccluders # {}
        /\ \A i \in shOccluders : shBoundary(shBuildings[i]))
       => shRet[1].confidence = 0

C4_Witness ==
    /\ shPc = "done"
    /\ \E i \in 1..Len(shBuildings) :
          /\ shBoundary(shBuildings[i])
          /\ shElev(shBuildings[i]) > shArgs.sun.altitudeDeg
    /\ shRet[1].confidence = 0

\* C5: the confidence returned is the maximum confidence over the occluding
\* candidates, the culprit is a building of the list attaining it, and among
\* several attaining it the first of the list.
shMaxConf ==
    CHOOSE m \in {shConf(shBuildings[i]) : i \in shOccluders} :
        \A i \in shOccluders : shConf(shBuildings[i]) <= m

shFirstBest ==
    CHOOSE i \in shOccluders :
        /\ shConf(shBuildings[i]) = shMaxConf
        /\ \A j \in shOccluders : shConf(shBuildings[j]) = shMaxConf => i <= j

C5_BestCulpritWins ==
    (shPc = "done" /\ shOccluders # {}) =>
        /\ shRet[1].confidence = shMaxConf
        /\ shRet[1].culprit = Some(shBuildings[shFirstBest])

\* What the code does return, for the occluders of confidence above 0.
C5_BestPositiveCulpritWins ==
    (shPc = "done" /\ shOccluders # {} /\ shMaxConf > 0) =>
        /\ shRet[1].confidence = shMaxConf
        /\ shRet[1].culprit = Some(shBuildings[shFirstBest])

\* C14: in every result returned by isShadedByBuildings, for any building
\* list, any sun angles (negative altitude included) and any positive
\* azTolerance, confidence lies in [0,1]; the shade factor the route derives
\* from a shaded result, 0.4 - 0.2 * confidence, therefore lies in [0.2, 0.4].
C14_ConfidenceInUnitInterval ==
    shPc = "done" =>
        LET r == shRet[1]
        IN  /\ r.confidence >= 0
            /\ r.confidence <= ConfDen(shArgs.opts)
            /\ (r.shaded /\ shArgs.opts = RouteOpts) =>
                  \* 0.2 <= shadeFactorNum / (5 * ConfDen) <= 0.4
                  /\ 5 * shadeFactorNum(r) >= 5 * ConfDen(RouteOpts)
                  /\ 5 * shadeFactorNum(r) <= 10 * ConfDen(RouteOpts)

C14_Witness ==
    /\ shPc = "done"
    /\ shArgs.sun.altitudeDeg < 0
    /\ shArgs.opts = RouteOpts
    /\ shRet[1].shaded
    /\ shRet[1].confidence = ConfDen(RouteOpts)
    /\ \E i \in shOccluders :
          confNoCap(shElev(shBuildings[i]), shArgs.sun.altitudeDeg,
                    shDelta(shBuildings[i]), shArgs.opts) > ConfDen(RouteOpts)
    /\ shadeFactorNum(shRet[1]) = ConfDen(RouteOpts)

\* The confidence line 750 computes for building b, and its elevation margin.
shComputedConf(b) ==
    confOf(shElev(b), shArgs.sun.altitudeDeg, shDelta(b), shArgs.opts)

shMargin(b) == shElev(b) - shArgs.sun.altitudeDeg

\* C15 as stated: the confidence of an occluding building is 0 when its
\* azimuth delta equals azTolerance, and is 1 for every occluding candidate
\* whose elevation margin is 10 degrees or more.
C15_SaturatesAtMargin10 ==
    shPc = "done" =>
        \A i \in shOccluders :
            LET b == shBuildings[i]
            IN  /\ shRet[1].confidence >= shComputedConf(b)
                /\ shDelta(b) = shArgs.opts.azTolerance => shComputedConf(b) = 0
                /\ shMargin(b) >= 10 => shComputedConf(b) = ConfDen(shArgs.opts)

\* C15 as amended: the confidence is min(1, (margin / 10) * (1 - delta /
\* azTolerance)); it is 0 at delta = azTolerance and is 1 exactly when
\* margin * (1 - delta / azTolerance) >= 10, so on the axis (delta = 0) it
\* saturates once the margin reaches 10 degrees, and off the axis only at a
\* larger margin.
C15_SaturatesAtScaledMargin ==
    shPc = "done" =>
        \A i \in shOccluders :
            LET b     == shBuildings[i]
                azTol == shArgs.opts.azTolerance
                c     == shComputedConf(b)
            IN  /\ shRet[1].confidence >= c
                /\ shDelta(b) = azTol => c = 0
                /\ c = ConfDen(shArgs.opts)
                      <=> shMargin(b) * (azTol - shDelta(b)) >= 10 * azTol
                /\ c < ConfDen(shArgs.opts) => c = shMargin(b) * (azTol - shDelta(b))
                /\ (shMargin(b) >= 10 /\ shDelta(b) = 0) => c = ConfDen(shArgs.opts)

C15_Witness ==
    /\ shPc = "done"
    /\ Len(shBuildings) = 1
    /\ shOccluders = {1}
    /\ shMargin(shBuildings[1]) >= 10
    /\ shDelta(shBuildings[1]) > 0
    /\ shDelta(shBuildings[1]) < shArgs.opts.azTolerance
    /\ shRet[1].shaded
    /\ shRet[1].confidence > 0
    /\ shRet[1].confidence < ConfDen(shArgs.opts)

\* C11: when the building list given to the evaluator is undefined, null or
\* not a list, isShadedByBuildings returns the not-shaded result
\* {shaded:false, confidence:0, culprit:undefined} and raises no error.
C11_InvalidListNotShaded ==
    (shArgs.given \in NotIterable /\ shPc # "loop" /\ shPc # "idle") =>
        /\ shPc = "done"
        /\ shRet = Some(notShaded)

\* What the code does: the loop header raises, and no result is returned.
C11_InvalidListThrows ==
    (shArgs.given \in NotIterable /\ shPc # "loop" /\ shPc # "idle") =>
        /\ shPc = "threw"
        /\ shRet = None

(***************************************************************************)
(* Properties of the route (SpecRoute).                                    *)
(***************************************************************************)
rItems == response.body

\* The raw score and the shadow result of an item of the response at a date.
rRaw(it, date) ==
    sunScore([lat |-> it.lat, lon |-> it.lon, orientationDeg |-> it.orientationDeg,
              streetWidth |-> it.streetWidth, date |-> date,
              cloudFraction |-> cloudFraction])

rShade(it, date) ==
    isShadedByBuildings([lat |-> it.lat, lon |-> it.lon],
                        getSunAngles(date, it.lat, it.lon), buildings, RouteOpts)

\* k = round(clamp(raw * shadeFactor, 0, 100)), shadeFactor being
\* 0.4 - 0.2 * confidence when shaded and 1 otherwise: with den = ConfDen and
\* confidence = c / den, raw * shadeFactor = x / (5 * den) for
\* x = raw * (2 * den - c) when shaded and x = raw * 5 * den otherwise.
C9_IsPublished(k, raw, shade) ==
    LET den == ConfDen(RouteOpts)
        x   == IF shade.shaded THEN raw * (2 * den - shade.confidence)
               ELSE raw * 5 * den
        cx  == Max(0, Min(100 * 5 * den, x))
    IN  /\ (2 * k - 1) * 5 * den <= 2 * cx
        /\ 2 * cx < (2 * k + 1) * 5 * den

\* C8: the forecast holds exactly one entry per offset, in the order of the
\* offsets, entry i carrying offset i (non-decreasing) and the score evaluated
\* at now + offset i minutes, which depends on no other offset.
C8_ForecastPerOffset ==
    (response.status = 200 /\ query.forecast) =>
        \A n \in 1..Len(rItems) :
            LET it == rItems[n]
                f  == it.forecast[1]
            IN  /\ it.forecast # None
                /\ Len(f) = Len(forecastOffsets)
                /\ \A i \in 1..Len(f) :
                      /\ f[i].tmin = forecastOffsets[i]
                      /\ i < Len(f) => f[i].tmin <= f[i + 1].tmin
                      /\ C9_IsPublished(f[i].score,
                                        rRaw(it, now + forecastOffsets[i]),
                                        rShade(it, now + forecastOffsets[i]))

C8_Witness ==
    /\ response.status = 200
    /\ query.forecast
    /\ \E n \in 1..Len(rItems) :
          LET f == rItems[n].forecast[1]
          IN  /\ Len(f) = 7
              /\ f[7].tmin = 120
              /\ f[1].score # f[2].score
              /\ f[2].score # f[7].score

\* C9: the current score and every forecast point are
\* round(clamp(rawScore * shadeFactor, 0, 100)), an integer in [0,100].
C9_PublishedScore ==
    response.status = 200 =>
        \A n \in 1..Len(rItems) :
            LET it == rItems[n]
            IN  /\ it.sunScore \in 0..100
                /\ C9_IsPublished(it.sunScore, rRaw(it, now), rShade(it, now))
                /\ it.forecast # None =>
                      \A i \in 1..Len(it.forecast[1]) :
                          LET pt == it.forecast[1][i]
                          IN  /\ pt.score \in 0..100
                              /\ C9_IsPublished(pt.score, rRaw(it, now + pt.tmin),
                                                rShade(it, now + pt.tmin))

C9_Witness ==
    /\ response.status = 200
    /\ \E n \in 1..Len(rItems) :
          LET it == rItems[n]
              sh == rShade(it, now)
          IN  /\ sh.shaded
              /\ sh.confidence > 0
              /\ sh.confidence < ConfDen(RouteOpts)
              /\ it.sunScore > 0
              /\ it.sunScore < rRaw(it, now)

\* C16: the list returned is ordered by non-increasing published sunScore:
\* items[i].sunScore >= items[i+1].sunScore for every two consecutive items,
\* whatever the order of the places; it holds one item per place.
C16_RankedBySunScore ==
    response.status = 200 =>
        /\ Len(rItems) = Len(places)
        /\ \A k \in 1..Len(places) : \E n \in 1..Len(rItems) : rItems[n].id = places[k].id
        /\ \A n \in 1..(Len(rItems) - 1) : rItems[n].sunScore >= rItems[n + 1].sunScore

C16_Witness ==
    /\ response.status = 200
    /\ Len(rItems) = 2
    /\ rItems[1].id = places[2].id
    /\ rItems[2].id = places[1].id
    /\ rItems[1].sunScore > rItems[2].sunScore

\* C18: with forecast=true, for every item of a response the first forecast
\* point (offset 0) has the same score as the item's sunScore.
C18_FirstPointIsCurrentScore ==
    (response.status = 200 /\ query.forecast) =>
        \A n \in 1..Len(rItems) :
            /\ rItems[n].forecast # None
            /\ rItems[n].forecast[1][1].tmin = 0
            /\ rItems[n].forecast[1][1].score = rItems[n].sunScore

C18_Witness ==
    /\ response.status = 200
    /\ query.forecast
    /\ \E n \in 1..Len(rItems) :
          /\ rShade(rItems[n], now).shaded
          /\ IsNumber(cloudFraction)
          /\ rItems[n].sunScore > 0
          /\ rItems[n].sunScore < rRaw(rItems[n], now)
          /\ rItems[n].forecast[1][1].score = rItems[n].sunScore
          /\ rItems[n].forecast[1][2].score # rItems[n].sunScore

\* The same bounds on the shadow results behind the items of a response.
C14_RouteShadeFactor ==
    response.status = 200 =>
        \A n \in 1..Len(rItems) :
            \A i \in 1..Len(forecastOffsets) :
                LET sh == rShade(rItems[n], now + forecastOffsets[i])
                IN  /\ sh.confidence \in 0..ConfDen(RouteOpts)
                    /\ sh.shaded =>
                          shadeFactorNum(sh) \in ConfDen(RouteOpts)..(2 * ConfDen(RouteOpts))

\* C10: whenever the weather collaborator cannot provide a cloud fraction
\* (network failure, non-OK response, response without a numeric cloud
\* cover), the cloud fraction handed to the scorer is the default 0.3.
C10_DefaultWhenUnavailable ==
    (rPc \in {"places", "buildings", "score", "done"}
        /\ weather \in {"networkError", "notOk", "noCover"})
    => cloudFraction = Some(30)

\* What the code does hand to the scorer: 0.3 when the lookup rejects,
\* undefined when it resolves without a value.
C10_DefaultOnlyOnRejection ==
    rPc \in {"places", "buildings", "score", "done"} =>
        /\ weather \in {"networkError", "badJson"} => cloudFraction = Some(30)
        /\ weather \in {"notOk", "noCover"} => cloudFraction = None

====
